---- MODULE Spec2Model ----
(***************************************************************************)
(* Model of search_client.py: the token cache file (load / save / the      *)
(* on-refresh callback), the native-app authentication flow, the           *)
(* authorizer factory get_native_app_authorizer and main's single search.  *)
(*                                                                         *)
(* Python values are tagged records, JSON text is a sequence of tokens:    *)
(* json.dump is a serialiser to tokens and json.load a recursive-descent   *)
(* parser of tokens, so that save followed by load is a real round trip.   *)
(***************************************************************************)
EXTENDS Integers, Sequences, FiniteSets, TLC

\* ------------------------------------------------------------------ bounds
\* Largest clock value a run can start at.
MaxTime == 2
\* Seconds an access token issued by the identity provider stays valid.
TokenLifetime == 1
\* Number of program runs (process launches) explored, one after another.
MaxRuns == 2

\* ------------------------------------------------------- Python values
\* Every value carries all six fields, so that any two values can be compared:
\* t is the Python type, and the field of that type holds the payload.
PyVal(t, b, n, s, l, d) == [t |-> t, b |-> b, n |-> n, s |-> s, l |-> l, d |-> d]
PyNone == PyVal("none", FALSE, 0, "", <<>>, <<>>)
PyBool(b) == PyVal("bool", b, 0, "", <<>>, <<>>)
PyInt(n) == PyVal("int", FALSE, n, "", <<>>, <<>>)
PyStr(s) == PyVal("str", FALSE, 0, s, <<>>, <<>>)
PyList(q) == PyVal("list", FALSE, 0, "", q, <<>>)
PyDict(f) == PyVal("dict", FALSE, 0, "", <<>>, f)

EmptyDict == PyDict(<<>>)

\* Python truthiness, as used by `if not tokens` and `if not is_remote_session()`.
Truthy(x) ==
    CASE x.t = "none" -> FALSE
      [] x.t = "bool" -> x.b
      [] x.t = "int"  -> x.n # 0
      [] x.t = "str"  -> x.s # ""
      [] x.t = "list" -> Len(x.l) > 0
      [] x.t = "dict" -> DOMAIN x.d # {}

\* d[key] = val on a dict (a later duplicate key replaces the earlier one).
DictSet(f, key, val) ==
    [k \in (DOMAIN f) \cup {key} |-> IF k = key THEN val ELSE f[k]]

\* x[key] with a string key: the value, or the exception Python raises.
Subscript(x, key) ==
    CASE x.t = "dict" /\ key \in DOMAIN x.d     -> [ok |-> TRUE,  val |-> x.d[key], err |-> "none"]
      [] x.t = "dict" /\ key \notin DOMAIN x.d  -> [ok |-> FALSE, val |-> PyNone,   err |-> "KeyError"]
      [] OTHER                                  -> [ok |-> FALSE, val |-> PyNone,   err |-> "TypeError"]

\* ----------------------------------------------------------- JSON text
\* A token: punctuation, a string literal, a number, or null / true / false.
Punct(s) == [k |-> "punct", s |-> s, n |-> 0]
StrTok(s) == [k |-> "str", s |-> s, n |-> 0]
NumTok(n) == [k |-> "num", s |-> "", n |-> n]
LitTok(s) == [k |-> "lit", s |-> s, n |-> 0]

RECURSIVE JsonDump(_)
RECURSIVE DumpMembers(_, _)
RECURSIVE DumpElements(_, _)

\* The members of dict f with keys ks, comma separated, in one fixed key order.
DumpMembers(f, ks) ==
    IF ks = {} THEN <<>>
    ELSE LET key == CHOOSE x \in ks : TRUE
             rest == ks \ {key}
         IN  <<StrTok(key), Punct(":")>> \o JsonDump(f[key])
             \o (IF rest = {} THEN <<>> ELSE <<Punct(",")>> \o DumpMembers(f, rest))

\* The elements of list q from index i on, comma separated.
DumpElements(q, i) ==
    IF i > Len(q) THEN <<>>
    ELSE JsonDump(q[i])
         \o (IF i = Len(q) THEN <<>> ELSE <<Punct(",")>> \o DumpElements(q, i + 1))

\* json.dump with None written as the string "None" (str(None)) instead of null.
JsonDumpMutantNoneAsString(x) ==
    CASE x.t = "none" -> <<StrTok("None")>>
      [] x.t = "bool" -> <<LitTok(IF x.b THEN "true" ELSE "false")>>
      [] x.t = "int"  -> <<NumTok(x.n)>>
      [] x.t = "str"  -> <<StrTok(x.s)>>
      [] x.t = "list" -> <<Punct("[")>> \o DumpElements(x.l, 1) \o <<Punct("]")>>
      [] x.t = "dict" -> <<Punct("{")>> \o DumpMembers(x.d, DOMAIN x.d) \o <<Punct("}")>>

\* json.dump(x, f): the text written for the Python value x.
JsonDump(x) ==
    CASE x.t = "none" -> <<LitTok("null")>>
      [] x.t = "bool" -> <<LitTok(IF x.b THEN "true" ELSE "false")>>
      [] x.t = "int"  -> <<NumTok(x.n)>>
      [] x.t = "str"  -> <<StrTok(x.s)>>
      [] x.t = "list" -> <<Punct("[")>> \o DumpElements(x.l, 1) \o <<Punct("]")>>
      [] x.t = "dict" -> <<Punct("{")>> \o DumpMembers(x.d, DOMAIN x.d) \o <<Punct("}")>>

ParseFail(i) == [ok |-> FALSE, val |-> PyNone, next |-> i]
ParseOk(x, i) == [ok |-> TRUE, val |-> x, next |-> i]
IsPunct(ts, i, s) == i <= Len(ts) /\ ts[i] = Punct(s)

RECURSIVE ParseValue(_, _)
RECURSIVE ParseMembers(_, _, _)
RECURSIVE ParseElements(_, _, _)

\* One JSON value starting at token i of ts.
ParseValue(ts, i) ==
    IF i > Len(ts) THEN ParseFail(i)
    ELSE LET tok == ts[i] IN
         CASE tok.k = "str" -> ParseOk(PyStr(tok.s), i + 1)
           [] tok.k = "num" -> ParseOk(PyInt(tok.n), i + 1)
           [] tok.k = "lit" ->
                (CASE tok.s = "null"  -> ParseOk(PyNone, i + 1)
                   [] tok.s = "true"  -> ParseOk(PyBool(TRUE), i + 1)
                   [] tok.s = "false" -> ParseOk(PyBool(FALSE), i + 1)
                   [] OTHER           -> ParseFail(i))
           [] tok.k = "punct" ->
                (CASE tok.s = "{" ->
                        IF IsPunct(ts, i + 1, "}") THEN ParseOk(EmptyDict, i + 2)
                        ELSE ParseMembers(ts, i + 1, <<>>)
                   [] tok.s = "[" ->
                        IF IsPunct(ts, i + 1, "]") THEN ParseOk(PyList(<<>>), i + 2)
                        ELSE ParseElements(ts, i + 1, <<>>)
                   [] OTHER -> ParseFail(i))

\* "key": value pairs from token i on, up to the closing brace; acc holds the
\* pairs read so far.
ParseMembers(ts, i, acc) ==
    IF i + 1 > Len(ts) \/ ts[i].k # "str" \/ ~IsPunct(ts, i + 1, ":") THEN ParseFail(i)
    ELSE LET r == ParseValue(ts, i + 2) IN
         IF ~r.ok THEN ParseFail(r.next)
         ELSE LET acc2 == DictSet(acc, ts[i].s, r.val) IN
              IF IsPunct(ts, r.next, "}") THEN ParseOk(PyDict(acc2), r.next + 1)
              ELSE IF IsPunct(ts, r.next, ",") THEN ParseMembers(ts, r.next + 1, acc2)
              ELSE ParseFail(r.next)

\* List elements from token i on, up to the closing bracket.
ParseElements(ts, i, acc) ==
    LET r == ParseValue(ts, i) IN
    IF ~r.ok THEN ParseFail(r.next)
    ELSE LET acc2 == Append(acc, r.val) IN
         IF IsPunct(ts, r.next, "]") THEN ParseOk(PyList(acc2), r.next + 1)
         ELSE IF IsPunct(ts, r.next, ",") THEN ParseElements(ts, r.next + 1, acc2)
         ELSE ParseFail(r.next)

\* json.load(f): the value of the whole text, or ValueError (empty text,
\* malformed text, data after the value).
JsonLoad(ts) ==
    LET r == ParseValue(ts, 1) IN
    IF r.ok /\ r.next = Len(ts) + 1
    THEN [ok |-> TRUE, val |-> r.val, err |-> "none"]
    ELSE [ok |-> FALSE, val |-> PyNone, err |-> "ValueError"]

\* ------------------------------------------------------ program constants
Service == "search.api.globus.org"
AuthService == "auth.globus.org"
\* The resource servers the requested SCOPES cover.
ScopeServices == {AuthService, Service}

\* ------------------------------------------------------------ the disk
\* The file at TOKEN_FILE: whether it exists, and its text.
NoFile == [exists |-> FALSE, content |-> <<>>]
TextFile(ts) == [exists |-> TRUE, content |-> ts]

\* What can go wrong with one write of a text of n tokens: nothing, open()
\* fails (the file is left alone), or the write stops after `at` tokens
\* (open(.., 'w') has truncated the file by then).  The cuts explored are
\* the empty file and the text less its last token.
WriteFaults(n) ==
    {[kind |-> "none", at |-> n], [kind |-> "open", at |-> 0]}
    \cup {[kind |-> "write", at |-> k] : k \in {0, n - 1} \cap (0 .. (n - 1))}

\* load_tokens_from_file(filepath)
load_tokens_from_file(f) ==
    IF ~f.exists THEN [ok |-> FALSE, val |-> PyNone, err |-> "IOError"]
    ELSE JsonLoad(f.content)

\* save_tokens_to_file with the file opened in mode 'a' instead of 'w'.
save_tokens_to_file_MutantAppend(f, tokens, fault) ==
    LET text == JsonDump(tokens) IN
    CASE fault.kind = "open"  -> [ok |-> FALSE, file |-> f, err |-> "IOError"]
      [] fault.kind = "write" -> [ok |-> FALSE, file |-> TextFile(f.content \o SubSeq(text, 1, fault.at)),
                                  err |-> "IOError"]
      [] OTHER                -> [ok |-> TRUE, file |-> TextFile(f.content \o text), err |-> "none"]

\* save_tokens_to_file(filepath, tokens) under the write fault `fault`:
\* the file afterwards, and whether the call returned or raised IOError.
save_tokens_to_file(f, tokens, fault) ==
    LET text == JsonDump(tokens) IN
    CASE fault.kind = "open"  -> [ok |-> FALSE, file |-> f, err |-> "IOError"]
      [] fault.kind = "write" -> [ok |-> FALSE, file |-> TextFile(SubSeq(text, 1, fault.at)),
                                  err |-> "IOError"]
      [] OTHER                -> [ok |-> TRUE, file |-> TextFile(text), err |-> "none"]

\* ------------------------------------------------------ the environment
EnvNames == {"SSH_TTY", "SSH_CONNECTION"}
EnvValues == {"", "1"}
\* Every environment: each variable unset, empty or non-empty.
Environs == UNION {[S -> EnvValues] : S \in SUBSET EnvNames}

\* os.environ.get(name, default)
EnvGet(env, name, default) ==
    IF name \in DOMAIN env THEN PyStr(env[name]) ELSE default

\* is_remote_session()
is_remote_session(env) ==
    EnvGet(env, "SSH_TTY", EnvGet(env, "SSH_CONNECTION", PyNone))

\* The browser do_native_app_authentication opens: none in a remote session,
\* safari on darwin, the default browser elsewhere.
BrowserLaunch(env, platform) ==
    IF ~Truthy(is_remote_session(env))
    THEN (IF platform = "darwin" THEN "safari" ELSE "default")
    ELSE "none"

Platforms == {"darwin", "linux"}

\* --------------------------------------------------- the auth code typed
RECURSIVE LStrip(_)
LStrip(q) == IF q # <<>> /\ Head(q) = " " THEN LStrip(Tail(q)) ELSE q
RECURSIVE RStrip(_)
RStrip(q) == IF q # <<>> /\ q[Len(q)] = " " THEN RStrip(SubSeq(q, 1, Len(q) - 1)) ELSE q
\* str.strip()
Strip(q) == RStrip(LStrip(q))

\* The lines the user may type at 'Enter the auth code: ' (characters).
AuthCodeLines == {<<>>, <<" ">>, <<"c">>, <<" ", "c", " ">>, <<"x">>}
\* The one code the identity provider has issued.
IssuedCode == <<"c">>

\* --------------------------------------------------- identity provider
AccessTokens == {"atA", "atB"}
RefreshToken == "rtA"

\* One entry of token_response.by_resource_server.
TokenRecord(rs, at, rt, exp) ==
    PyDict("resource_server" :> PyStr(rs) @@ "access_token" :> at
           @@ "refresh_token" :> rt @@ "expires_at_seconds" :> exp)

\* The token sets an authorization-code exchange at time t can return: one
\* record per resource server of the scopes, each with a refresh token
\* (refresh_tokens=True) and a fresh expiry.
CodeGrants(t) ==
    {PyDict([rs \in ScopeServices |->
                TokenRecord(rs, PyStr(at[rs]), PyStr(RefreshToken), PyInt(t + TokenLifetime))])
        : at \in [ScopeServices -> AccessTokens]}

\* The token sets a refresh-token grant at time t can return: the record of
\* the refresh token's own resource server, with or without the refresh
\* token repeated.
RefreshGrants(rt, t) ==
    {PyDict(Service :> TokenRecord(Service, PyStr(at), r, PyInt(t + TokenLifetime)))
        : at \in AccessTokens, r \in {rt, PyNone}}

\* ------------------------------------------------------------ the state
VARIABLES
    pc,          \* where the process is: idle, load, auth, save, select, search,
                 \* on_refresh, done, crashed (rt_* under SpecRT)
    runs,        \* launches of the program so far
    now,         \* the clock at the launch of the current run
    environ,     \* os.environ of the current run
    file,        \* the cache file TOKEN_FILE
    tokens,      \* get_native_app_authorizer's local `tokens`
    authorizer,  \* the RefreshTokenAuthorizer main holds
    response,    \* token_response handed to the on-refresh callback
    error,       \* the exception that ended the run, "none" otherwise
    errorAt,     \* the step that raised it
    authCalls,   \* calls of do_native_app_authentication in this run
    authOutcome, \* "none", "ok" or "failed": how the code exchange went
    browser,     \* browser launch attempted in this run
    granted,     \* the mapping do_native_app_authentication returned
    saveResult,  \* "none", "ok" or "failed": the save after authentication
    writes,      \* writes of the cache file attempted in this run
    refreshes,   \* token refreshes in this run
    queries,     \* access tokens carried by the search requests of this run
    fileAtStart, \* the cache file when this run was launched
    cachedBefore,\* the cache file when the on-refresh callback was entered
    savedGrant   \* the mapping the latest successful save after authentication
                 \* wrote, in this run or an earlier one

vars == <<pc, runs, now, environ, file, tokens, authorizer, response, error, errorAt,
          authCalls, authOutcome, browser, granted, saveResult, writes, refreshes,
          queries, fileAtStart, cachedBefore, savedGrant>>

NoAuthorizer == [refresh_token |-> PyNone, access_token |-> PyNone, expires_at |-> PyNone]

\* ------------------------------------------- get_native_app_authorizer
\* The load guarded by `except ValueError:` instead of the bare `except:`.
TryLoadMutantCatchValueErrorOnly(f) ==
    LET r == load_tokens_from_file(f) IN
    IF r.ok THEN [tokens |-> r.val, raised |-> "none"]
    ELSE IF r.err = "ValueError" THEN [tokens |-> PyNone, raised |-> "none"]
    ELSE [tokens |-> PyNone, raised |-> r.err]

\* The try / except around load_tokens_from_file: the tokens loaded, or None
\* when anything was raised; `raised` is an exception the except lets through.
TryLoad(f) ==
    LET r == load_tokens_from_file(f) IN
    IF r.ok THEN [tokens |-> r.val, raised |-> "none"]
    ELSE [tokens |-> PyNone, raised |-> "none"]

\* `if not tokens:`
NeedsAuthentication(t) == ~Truthy(t)

\* The save after authentication without its try / except.
TrySaveMutantNoExcept(r) == r.err

\* The try / except around the save after authentication: the exception it
\* lets through (r is the failed save).
TrySave(r) == "none"

\* The exchange's error caught and the authentication started again.
AfterExchangeMutantRetry(ok) == IF ok THEN "save" ELSE "auth"

\* Where do_native_app_authentication leaves the run: with the tokens, or
\* with the exchange's error propagating.
AfterExchange(ok) == IF ok THEN "save" ELSE "crashed"

\* The authorizer built with access token and refresh token interchanged.
SelectRecordMutantSwapTokens(t, service) ==
    LET rec == Subscript(t, service)
        rt  == Subscript(rec.val, "refresh_token")
        at  == Subscript(rec.val, "access_token")
        ex  == Subscript(rec.val, "expires_at_seconds")
    IN  IF ~rec.ok THEN [ok |-> FALSE, err |-> rec.err, tokens |-> t, authorizer |-> NoAuthorizer]
        ELSE IF ~rt.ok THEN [ok |-> FALSE, err |-> rt.err, tokens |-> rec.val, authorizer |-> NoAuthorizer]
        ELSE IF ~at.ok THEN [ok |-> FALSE, err |-> at.err, tokens |-> rec.val, authorizer |-> NoAuthorizer]
        ELSE IF ~ex.ok THEN [ok |-> FALSE, err |-> ex.err, tokens |-> rec.val, authorizer |-> NoAuthorizer]
        ELSE [ok |-> TRUE, err |-> "none", tokens |-> rec.val,
              authorizer |-> [refresh_token |-> at.val, access_token |-> rt.val,
                              expires_at |-> ex.val]]

\* tokens = tokens[service] and the three fields the authorizer is built
\* from, read in the order the call evaluates them.
SelectRecord(t, service) ==
    LET rec == Subscript(t, service)
        rt  == Subscript(rec.val, "refresh_token")
        at  == Subscript(rec.val, "access_token")
        ex  == Subscript(rec.val, "expires_at_seconds")
    IN  IF ~rec.ok THEN [ok |-> FALSE, err |-> rec.err, tokens |-> t, authorizer |-> NoAuthorizer]
        ELSE IF ~rt.ok THEN [ok |-> FALSE, err |-> rt.err, tokens |-> rec.val, authorizer |-> NoAuthorizer]
        ELSE IF ~at.ok THEN [ok |-> FALSE, err |-> at.err, tokens |-> rec.val, authorizer |-> NoAuthorizer]
        ELSE IF ~ex.ok THEN [ok |-> FALSE, err |-> ex.err, tokens |-> rec.val, authorizer |-> NoAuthorizer]
        ELSE [ok |-> TRUE, err |-> "none", tokens |-> rec.val,
              authorizer |-> [refresh_token |-> rt.val, access_token |-> at.val,
                              expires_at |-> ex.val]]

\* Whether the RefreshTokenAuthorizer (globus_sdk) fetches a new access token
\* before it signs a request at time t: it was given none, or no expiry, or
\* the one it holds has expired.
NeedsRefresh(a, t) ==
    \/ a.access_token.t # "str"
    \/ a.expires_at.t # "int"
    \/ a.expires_at.n <= t

\* --------------------------------------------------------------- actions
\* The program is launched: main() calls get_native_app_authorizer.
StartRun ==
    /\ pc \in {"idle", "done", "crashed"}
    /\ runs < MaxRuns
    /\ runs' = runs + 1
    /\ \E t \in now .. MaxTime : now' = t
    /\ \E env \in Environs : environ' = env
    /\ pc' = "load"
    /\ tokens' = PyNone
    /\ authorizer' = NoAuthorizer
    /\ response' = PyNone
    /\ error' = "none"
    /\ errorAt' = "none"
    /\ authCalls' = 0
    /\ authOutcome' = "none"
    /\ browser' = "none"
    /\ granted' = PyNone
    /\ saveResult' = "none"
    /\ writes' = 0
    /\ refreshes' = 0
    /\ queries' = <<>>
    /\ fileAtStart' = file
    /\ cachedBefore' = file
    /\ UNCHANGED <<file, savedGrant>>

\* try: tokens = load_tokens_from_file(TOKEN_FILE) except: pass; if not tokens
LoadTokens ==
    /\ pc = "load"
    /\ LET r == TryLoad(file) IN
       /\ tokens' = r.tokens
       /\ IF r.raised # "none"
          THEN pc' = "crashed" /\ error' = r.raised /\ errorAt' = "load"
          ELSE /\ pc' = IF NeedsAuthentication(r.tokens) THEN "auth" ELSE "select"
               /\ UNCHANGED <<error, errorAt>>
    /\ UNCHANGED <<runs, now, environ, file, authorizer, response, authCalls, authOutcome,
                   browser, granted, saveResult, writes, refreshes, queries, fileAtStart,
                   cachedBefore, savedGrant>>

\* do_native_app_authentication: the URL is printed, the browser opened
\* unless the session is remote, the code read and exchanged for tokens.
Authenticate ==
    /\ pc = "auth"
    /\ authCalls' = authCalls + 1
    /\ \E platform \in Platforms : browser' = BrowserLaunch(environ, platform)
    /\ \E line \in AuthCodeLines, reachable \in BOOLEAN, grant \in CodeGrants(now) :
         LET ok == reachable /\ Strip(line) = IssuedCode IN
         /\ authOutcome' = IF ok THEN "ok" ELSE "failed"
         /\ pc' = AfterExchange(ok)
         /\ IF ok
            THEN tokens' = grant /\ granted' = grant /\ UNCHANGED <<error, errorAt>>
            ELSE /\ UNCHANGED <<tokens, granted>>
                 /\ error' = IF pc' = "crashed" THEN "AuthAPIError" ELSE error
                 /\ errorAt' = IF pc' = "crashed" THEN "auth" ELSE errorAt
    /\ UNCHANGED <<runs, now, environ, file, authorizer, response, saveResult, writes,
                   refreshes, queries, fileAtStart, cachedBefore, savedGrant>>

\* try: save_tokens_to_file(TOKEN_FILE, tokens) except: pass
SaveAfterAuth ==
    /\ pc = "save"
    /\ \E fault \in WriteFaults(Len(JsonDump(tokens))) :
         LET r == save_tokens_to_file(file, tokens, fault)
             raised == IF r.ok THEN "none" ELSE TrySave(r)
         IN  /\ file' = r.file
             /\ saveResult' = IF r.ok THEN "ok" ELSE "failed"
             /\ savedGrant' = IF r.ok THEN tokens ELSE savedGrant
             /\ IF raised # "none"
                THEN pc' = "crashed" /\ error' = raised /\ errorAt' = "save"
                ELSE pc' = "select" /\ UNCHANGED <<error, errorAt>>
    /\ writes' = writes + 1
    /\ UNCHANGED <<runs, now, environ, tokens, authorizer, response, authCalls, authOutcome,
                   browser, granted, refreshes, queries, fileAtStart, cachedBefore>>

\* tokens = tokens[service]; return RefreshTokenAuthorizer(...)
BuildAuthorizer ==
    /\ pc = "select"
    /\ LET r == SelectRecord(tokens, Service) IN
       /\ tokens' = r.tokens
       /\ authorizer' = r.authorizer
       /\ IF r.ok
          THEN pc' = "search" /\ UNCHANGED <<error, errorAt>>
          ELSE pc' = "crashed" /\ error' = r.err /\ errorAt' = "select"
    /\ UNCHANGED <<runs, now, environ, file, response, authCalls, authOutcome, browser,
                   granted, saveResult, writes, refreshes, queries, fileAtStart, cachedBefore,
                   savedGrant>>

\* sc.search finds the access token missing or expired: the authorizer asks
\* the identity provider for a new one and calls on_refresh with the answer.
RefreshTokens ==
    /\ pc = "search"
    /\ NeedsRefresh(authorizer, now)
    /\ \E reachable \in BOOLEAN, grant \in RefreshGrants(authorizer.refresh_token, now) :
         IF reachable /\ authorizer.refresh_token.t = "str"
         THEN /\ response' = grant
              /\ authorizer' = [authorizer EXCEPT
                                  !.access_token = grant.d[Service].d["access_token"],
                                  !.expires_at = grant.d[Service].d["expires_at_seconds"]]
              /\ refreshes' = refreshes + 1
              /\ cachedBefore' = file
              /\ pc' = "on_refresh"
              /\ UNCHANGED <<error, errorAt>>
         ELSE /\ pc' = "crashed" /\ error' = "AuthAPIError" /\ errorAt' = "refresh"
              /\ UNCHANGED <<response, authorizer, refreshes, cachedBefore>>
    /\ UNCHANGED <<runs, now, environ, file, tokens, authCalls, authOutcome, browser,
                   granted, saveResult, writes, queries, fileAtStart, savedGrant>>

\* update_tokens_file_on_refresh(token_response)
update_tokens_file_on_refresh ==
    /\ pc = "on_refresh"
    /\ \E fault \in WriteFaults(Len(JsonDump(response))) :
         LET r == save_tokens_to_file(file, response, fault) IN
         /\ file' = r.file
         /\ IF r.ok
            THEN pc' = "search" /\ UNCHANGED <<error, errorAt>>
            ELSE pc' = "crashed" /\ error' = r.err /\ errorAt' = "on_refresh"
    /\ writes' = writes + 1
    /\ UNCHANGED <<runs, now, environ, tokens, authorizer, response, authCalls, authOutcome,
                   browser, granted, saveResult, refreshes, queries, fileAtStart,
                   cachedBefore, savedGrant>>

\* r = sc.search(search_index, '*'); print(json.dumps(r.data, indent=4))
Search ==
    /\ pc = "search"
    /\ ~NeedsRefresh(authorizer, now)
    /\ queries' = Append(queries, authorizer.access_token)
    /\ \E answered \in BOOLEAN :
         IF answered
         THEN pc' = "done" /\ UNCHANGED <<error, errorAt>>
         ELSE pc' = "crashed" /\ error' = "SearchAPIError" /\ errorAt' = "search"
    /\ UNCHANGED <<runs, now, environ, file, tokens, authorizer, response, authCalls,
                   authOutcome, browser, granted, saveResult, writes, refreshes,
                   fileAtStart, cachedBefore, savedGrant>>

\* ------------------------------------------------- initial cache files
\* Expiry times a cached record may carry.
Expiries == 0 .. (MaxTime + TokenLifetime)

\* Records of the search service as an earlier run may have cached them: as
\* the code exchange returned them, or as a refresh returned them (the
\* refresh token possibly null).
CachedRecords ==
    {TokenRecord(Service, PyStr(at), rt, PyInt(e))
        : at \in AccessTokens, rt \in {PyStr(RefreshToken), PyNone}, e \in Expiries}

AuthRecord == TokenRecord(AuthService, PyStr("atA"), PyStr(RefreshToken), PyInt(0))

\* Well-formed mappings holding a record of the search service.
CachedMappings ==
    {PyDict(Service :> rec) : rec \in CachedRecords}
    \cup {PyDict(AuthService :> AuthRecord @@ Service :> rec) : rec \in CachedRecords}

\* Values that are not a usable mapping: falsy ones, non-mappings, a mapping
\* without the service, with a non-record for it, with a record short of a field.
MisshapenValues ==
    { PyNone, EmptyDict, PyList(<<>>),
      PyList(<<PyInt(1)>>), PyStr("x"),
      PyDict(AuthService :> AuthRecord),
      PyDict(Service :> PyNone),
      PyDict(Service :> PyDict("access_token" :> PyStr("atA"))) }

\* The cache file before the first run: absent, empty, cut short, or the
\* JSON text of one of the values above.
InitFiles ==
    {NoFile, TextFile(<<>>), TextFile(<<Punct("{")>>)}
    \cup {TextFile(JsonDump(x)) : x \in MisshapenValues \cup CachedMappings}

Init ==
    /\ pc = "idle"
    /\ runs = 0
    /\ now = 0
    /\ environ = <<>>
    /\ file \in InitFiles
    /\ tokens = PyNone
    /\ authorizer = NoAuthorizer
    /\ response = PyNone
    /\ error = "none"
    /\ errorAt = "none"
    /\ authCalls = 0
    /\ authOutcome = "none"
    /\ browser = "none"
    /\ granted = PyNone
    /\ saveResult = "none"
    /\ writes = 0
    /\ refreshes = 0
    /\ queries = <<>>
    /\ fileAtStart = file
    /\ cachedBefore = file
    /\ savedGrant = PyNone

Next ==
    \/ StartRun
    \/ LoadTokens
    \/ Authenticate
    \/ SaveAfterAuth
    \/ BuildAuthorizer
    \/ RefreshTokens
    \/ update_tokens_file_on_refresh
    \/ Search

Spec == Init /\ [][Next]_vars

\* ------------------------------------------- save / load as a round trip
\* Well-formed records of resource server rs.
WellFormedRecords(rs) ==
    {TokenRecord(rs, PyStr(at), rt, PyInt(e))
        : at \in AccessTokens, rt \in {PyStr(RefreshToken), PyNone}, e \in Expiries}

\* Every well-formed mapping over the resource servers of the scopes,
\* the empty one included.
WellFormedMappings ==
    UNION {{PyDict(f) : f \in {g \in [S -> UNION {WellFormedRecords(rs) : rs \in S}] :
                                  \A rs \in S : g[rs] \in WellFormedRecords(rs)}}
             : S \in SUBSET ScopeServices}

\* The file a save may find at the path.
RTInitFiles == {NoFile, TextFile(<<Punct("{")>>), TextFile(JsonDump(PyDict(Service :> PyNone)))}

InitRT ==
    /\ pc = "rt_save"
    /\ runs = 0
    /\ now = 0
    /\ environ = <<>>
    /\ file \in RTInitFiles
    /\ tokens = PyNone
    /\ authorizer = NoAuthorizer
    /\ response = PyNone
    /\ error = "none"
    /\ errorAt = "none"
    /\ authCalls = 0
    /\ authOutcome = "none"
    /\ browser = "none"
    /\ granted \in WellFormedMappings
    /\ saveResult = "none"
    /\ writes = 0
    /\ refreshes = 0
    /\ queries = <<>>
    /\ fileAtStart = file
    /\ cachedBefore = file
    /\ savedGrant = PyNone

\* save_tokens_to_file(path, M)
RTSave ==
    /\ pc = "rt_save"
    /\ \E fault \in WriteFaults(Len(JsonDump(granted))) :
         LET r == save_tokens_to_file(file, granted, fault) IN
         /\ file' = r.file
         /\ saveResult' = IF r.ok THEN "ok" ELSE "failed"
    /\ writes' = writes + 1
    /\ pc' = "rt_load"
    /\ UNCHANGED <<runs, now, environ, tokens, authorizer, response, error, errorAt,
                   authCalls, authOutcome, browser, granted, refreshes, queries,
                   fileAtStart, cachedBefore, savedGrant>>

\* load_tokens_from_file(path)
RTLoad ==
    /\ pc = "rt_load"
    /\ LET r == load_tokens_from_file(file) IN
       /\ tokens' = r.val
       /\ error' = r.err
       /\ errorAt' = IF r.ok THEN "none" ELSE "rt_load"
    /\ pc' = "rt_done"
    /\ UNCHANGED <<runs, now, environ, file, authorizer, response, authCalls, authOutcome,
                   browser, granted, saveResult, writes, refreshes, queries, fileAtStart,
                   cachedBefore, savedGrant>>

NextRT == RTSave \/ RTLoad

SpecRT == InitRT /\ [][NextRT]_vars

\* ------------------------------------------------ vocabulary of the claims
\* The cache file is missing or its text does not parse.
CacheMiss(f) == ~load_tokens_from_file(f).ok

\* A record with the three fields the authorizer is built from.
HasTokenFields(rec) ==
    /\ rec.t = "dict"
    /\ {"refresh_token", "access_token", "expires_at_seconds"} \subseteq DOMAIN rec.d

\* The file holds a resource-server -> record mapping with a record of the
\* requested service.
UsableCache(f) ==
    LET r == load_tokens_from_file(f) IN
    /\ r.ok
    /\ r.val.t = "dict"
    /\ Service \in DOMAIN r.val.d
    /\ HasTokenFields(r.val.d[Service])

CachedRecord(f) == load_tokens_from_file(f).val.d[Service]

\* The file holds a valid record of the requested service, not expired at t.
ValidUnexpired(f, t) ==
    /\ UsableCache(f)
    /\ CachedRecord(f).d["access_token"].t = "str"
    /\ CachedRecord(f).d["expires_at_seconds"].t = "int"
    /\ CachedRecord(f).d["expires_at_seconds"].n > t

\* The authorizer seeded with the fields of rec.
AuthorizerOf(rec) ==
    [refresh_token |-> rec.d["refresh_token"], access_token |-> rec.d["access_token"],
     expires_at |-> rec.d["expires_at_seconds"]]

\* ---------------------------------------------------------------- claims

\* C1: whenever update_tokens_file_on_refresh has run, the cache file holds
\* every service that was cached before the refresh, the records of the
\* services other than the refreshed one unchanged.
C1_RefreshPersistsEntireMapping ==
    (refreshes > 0 /\ pc \in {"search", "done"}) =>
        LET before == load_tokens_from_file(cachedBefore)
            after  == load_tokens_from_file(file)
        IN  (before.ok /\ before.val.t = "dict") =>
              /\ after.ok
              /\ after.val.t = "dict"
              /\ \A rs \in DOMAIN before.val.d :
                    /\ rs \in DOMAIN after.val.d
                    /\ rs # Service => after.val.d[rs] = before.val.d[rs]

\* C2: once do_native_app_authentication has run, no browser launch was
\* attempted exactly when SSH_TTY or SSH_CONNECTION is set to a non-empty value.
C2_RemoteSessionHeuristic ==
    authCalls > 0 =>
        ((browser = "none") <=> (\E name \in DOMAIN environ : environ[name] # ""))

\* C3: in a run launched with the cache file missing or unparseable, the
\* native authenticator is invoked exactly once (not before the load, once
\* from then on) and no error of the load ends the run.
C3_CacheMissAuthenticatesOnce ==
    (pc # "idle" /\ CacheMiss(fileAtStart)) =>
        /\ pc \in {"load", "auth"} => authCalls = 0
        /\ pc \notin {"load", "auth"} => authCalls = 1
        /\ pc # "select" \/ authOutcome = "ok"
        /\ errorAt # "load"
        /\ error \notin {"IOError", "ValueError"}

C3_Witness ==
    /\ ~fileAtStart.exists
    /\ pc = "done"
    /\ authCalls = 1

\* C4: in a run launched with a cache file that does not hold a usable
\* mapping for the requested service, the factory re-authenticates and the
\* run does not end in an error raised while selecting the record.
C4_MisshapenCacheReauthenticates ==
    (pc \notin {"idle", "load", "auth"} /\ ~UsableCache(fileAtStart)) =>
        /\ authCalls = 1
        /\ ~(pc = "crashed" /\ errorAt = "select")

\* C5: no run ends with the error of a failed write of the cache file.
C5_WriteFailureNeverFatal ==
    ~(pc = "crashed" /\ error = "IOError" /\ errorAt \in {"save", "on_refresh"})

\* C6: after a failed save of freshly obtained tokens the run goes on: the
\* save raises nothing, and the authorizer returned is the one seeded with
\* the requested service's record of those tokens.
C6_SaveFailureStillReturnsAuthorizer ==
    saveResult = "failed" =>
        /\ authOutcome = "ok"
        /\ pc \in {"select", "search", "done", "crashed"}
        /\ pc = "crashed" => errorAt = "search"
        /\ pc # "select" => authorizer = AuthorizerOf(granted.d[Service])

C6_Witness ==
    /\ saveResult = "failed"
    /\ pc = "done"
    /\ queries = <<granted.d[Service].d["access_token"]>>

\* C7: in a run launched with a valid, unexpired record of the search
\* service in the cache file, no authenticator is invoked, the file is not
\* written, and the one query issued carries the cached access token.
C7_CacheHitUsesCachedToken ==
    (pc # "idle" /\ ValidUnexpired(fileAtStart, now)) =>
        /\ authCalls = 0
        /\ authOutcome = "none"
        /\ writes = 0
        /\ refreshes = 0
        /\ file = fileAtStart
        /\ pc \in {"load", "select", "search", "done", "crashed"}
        /\ pc = "crashed" => errorAt = "search"
        /\ pc \in {"load", "select", "search"} => queries = <<>>
        /\ pc \in {"done", "crashed"} =>
              queries = <<CachedRecord(fileAtStart).d["access_token"]>>

C7_Witness ==
    /\ ValidUnexpired(fileAtStart, now)
    /\ pc = "done"
    /\ queries = <<CachedRecord(fileAtStart).d["access_token"]>>
    /\ DOMAIN load_tokens_from_file(fileAtStart).val.d = ScopeServices

\* C8: loading what save_tokens_to_file wrote for a well-formed mapping
\* returns that mapping.
C8_RoundTrip ==
    (pc = "rt_done" /\ saveResult = "ok") => (error = "none" /\ tokens = granted)

C8_Witness ==
    /\ pc = "rt_done"
    /\ saveResult = "ok"
    /\ tokens = granted
    /\ DOMAIN granted.d = ScopeServices
    /\ granted.d[Service].d["refresh_token"] = PyNone

\* C9: (a) from a successful save after authentication to the end of that
\* run the cache file holds exactly the mapping the authenticator returned;
\* (b) a later run launched with a file that holds the requested service's
\* record does not authenticate and seeds its authorizer from the file;
\* (c) no step removes the cache file.
C9_CacheAcrossRuns ==
    /\ [](saveResult = "ok" =>
            /\ file.exists
            /\ load_tokens_from_file(file).ok
            /\ load_tokens_from_file(file).val = granted)
    /\ []((pc # "idle" /\ savedGrant # PyNone /\ saveResult = "none"
              /\ UsableCache(fileAtStart)) =>
            /\ authCalls = 0
            /\ pc \notin {"auth", "save"}
            /\ (pc = "search" /\ refreshes = 0) =>
                  authorizer = AuthorizerOf(CachedRecord(fileAtStart)))
    /\ [][file.exists => file'.exists]_vars

C9_Witness ==
    /\ runs = 2
    /\ savedGrant # PyNone
    /\ fileAtStart = TextFile(JsonDump(savedGrant))
    /\ pc = "done"
    /\ authCalls = 0

\* C10: a failed code exchange ends the run there: the error propagates,
\* the authenticator is not called again, no query is issued and the cache
\* file is as it was when the run was launched.
C10_AuthFailureIsFatal ==
    authOutcome = "failed" =>
        /\ pc = "crashed"
        /\ errorAt = "auth"
        /\ authCalls = 1
        /\ queries = <<>>
        /\ writes = 0
        /\ file = fileAtStart

C10_Witness ==
    /\ authOutcome = "failed"
    /\ pc = "crashed"
    /\ fileAtStart.exists

====
